---------------------------- MODULE Spec2Model ----------------------------
(***************************************************************************)
(* A model of crypto-trading-signals: the indicator engine, the signal     *)
(* classifier and the strength score (src/trading_logic.py), the cycle of  *)
(* the app script with its history and notifications (src/app.py,          *)
(* src/telegram_notifier.py) and the fetch loop (src/data_fetcher.py).     *)
(*                                                                         *)
(* Numbers.  Python floats are modelled in fixed point: an integer n       *)
(* stands for n * 0.0005, so that the literal 0.001 of _determine_signal   *)
(* is Milli units and 1.0 is One units.  Sums, differences and products by *)
(* an integer are exact; every division rounds to the nearest unit, as a   *)
(* float operation rounds to the nearest representable value.              *)
(*                                                                         *)
(* A cell of a frame (a pandas value) is a record [k, v]: k = "num" is a   *)
(* number of v units, "nan" is NaN, "none" is Python's None, "str" is a    *)
(* text that spells the number v, "bad" is a text that spells no number,   *)
(* "inf" and "ninf" are the float infinities.                              *)
(***************************************************************************)
EXTENDS Integers, Sequences, FiniteSets, TLC

VARIABLES
    args,         \* the five arguments of a _determine_signal call
    signal,       \* what that call returned, "pending" before it returns
    df,           \* the frame handed to generate_signal
    signal_data,  \* what generate_signal returned, Pending before the call
    pinned,       \* an earlier evaluation of the same analyzer, kept to compare
    prices,       \* the series handed to _calculate_rsi / _calculate_ema
    period,       \* the period handed to them
    series_out,   \* which of them ran and the series it returned
    caller_df,    \* the caller's frame, handed to calculate_indicators
    ret,          \* the frame calculate_indicators returned
    moves,        \* how many points of caller_df do not repeat the one before
    strength,     \* what get_signal_strength returned for signal_data
    signals_history,   \* st.session_state.signals_history of app.py
    telegram_enabled,  \* the notification checkbox as the last cycle read it
    outbox,       \* the messages handed to enviar_mensagem, oldest first
    cycle,        \* the last run of the app script: what it evaluated and did
    tentativas,   \* the attempts an obter_dados_btc call is allowed
    tentativa,    \* its loop index
    requests,     \* the statuses of the HTTP requests it has issued
    fetched       \* what it returned, Pending while it runs

engineVars == <<args, signal, df, signal_data, pinned, prices, period,
                series_out, caller_df, ret, moves>>
appVars == <<signals_history, telegram_enabled, outbox, cycle>>
fetchVars == <<tentativas, tentativa, requests, fetched>>

vars == <<args, signal, df, signal_data, pinned, prices, period, series_out,
          caller_df, ret, moves, strength, signals_history, telegram_enabled,
          outbox, cycle, tentativas, tentativa, requests, fetched>>

---------------------------------------------------------------------------
(* Numbers *)

\* 0.001, the momentum threshold of _determine_signal, in model units.
Milli == 2
One == 1000 * Milli

Abs(n) == IF n < 0 THEN -n ELSE n

\* a / b rounded to the nearest integer (b > 0), halves up.
RoundDiv(a, b) == (2 * a + b) \div (2 * b)

Num(n) == [k |-> "num", v |-> n]
NaN == [k |-> "nan", v |-> 0]
None == [k |-> "none", v |-> 0]
PosInf == [k |-> "inf", v |-> 0]
NegInf == [k |-> "ninf", v |-> 0]
Txt(n) == [k |-> "str", v |-> n]
BadTxt == [k |-> "bad", v |-> 0]

IsNum(c) == c.k = "num"

\* pd.isna of one value: NaN and None are missing, everything else is not.
IsNa(c) == c.k \in {"nan", "none"}

---------------------------------------------------------------------------
(* TradingAnalyzer.__init__ *)

rsi_period == 14
macd_fast == 12
macd_slow == 26
macd_signal == 9
ema_short == 9
ema_long == 21
\* the window of df["Volume"].rolling(20)
volume_window == 20

---------------------------------------------------------------------------
(* TradingAnalyzer._determine_signal *)

BUY == "SINAL DE COMPRA"
SELL == "SINAL DE VENDA"
HOLD == "AGUARDAR"

\* the RSI bands of the two rules
BuyRsiLow == 45
BuyRsiHigh == 75
SellRsiHigh == 55
SellRsiLow == 25

\* the condition of the if branch
BuyCondition(rsi, macd_valor, sinal_macd, ema9, ema21) ==
    /\ rsi > BuyRsiLow * One
    /\ rsi < BuyRsiHigh * One
    /\ macd_valor > sinal_macd
    /\ ema9 > ema21
    /\ (macd_valor - sinal_macd) > Milli

\* the SELL rule written as a copy of the BUY rule with only the band changed
SellConditionCopied(rsi, macd_valor, sinal_macd, ema9, ema21) ==
    /\ rsi < SellRsiHigh * One
    /\ rsi > SellRsiLow * One
    /\ macd_valor > sinal_macd
    /\ ema9 > ema21
    /\ (macd_valor - sinal_macd) > Milli

\* the condition of the elif branch
SellCondition(rsi, macd_valor, sinal_macd, ema9, ema21) ==
    /\ rsi < SellRsiHigh * One
    /\ rsi > SellRsiLow * One
    /\ macd_valor < sinal_macd
    /\ ema9 < ema21
    /\ (sinal_macd - macd_valor) > Milli

\* _determine_signal with the momentum guards >= 0.001 instead of > 0.001
DetermineSignalWeakGuard(rsi, macd_valor, sinal_macd, ema9, ema21) ==
    IF /\ rsi > BuyRsiLow * One /\ rsi < BuyRsiHigh * One
       /\ macd_valor > sinal_macd /\ ema9 > ema21
       /\ (macd_valor - sinal_macd) >= Milli
    THEN BUY
    ELSE IF /\ rsi < SellRsiHigh * One /\ rsi > SellRsiLow * One
            /\ macd_valor < sinal_macd /\ ema9 < ema21
            /\ (sinal_macd - macd_valor) >= Milli
         THEN SELL
         ELSE HOLD

_determine_signal(rsi, macd_valor, sinal_macd, ema9, ema21) ==
    IF BuyCondition(rsi, macd_valor, sinal_macd, ema9, ema21)
    THEN BUY
    ELSE IF SellCondition(rsi, macd_valor, sinal_macd, ema9, ema21)
         THEN SELL
         ELSE HOLD

---------------------------------------------------------------------------
(* pandas Series operations.  A series is a sequence of cells; index i of  *)
(* pandas is position i + 1 here.                                          *)

\* a series with every cell computed, as a tuple
Values(s) == SubSeq(s, 1, Len(s))

\* Series.diff(): NaN at the first position, then s[i] - s[i-1]
Diff(s) ==
    Values([i \in 1..Len(s) |->
        IF i = 1 \/ ~IsNum(s[i]) \/ ~IsNum(s[i - 1])
        THEN NaN
        ELSE Num(s[i].v - s[i - 1].v)])

\* delta.where(delta > 0, 0): NaN > 0 is False, so a NaN becomes 0 too
WherePositive(s) ==
    Values([i \in 1..Len(s) |->
        IF IsNum(s[i]) /\ s[i].v > 0 THEN s[i] ELSE Num(0)])

\* delta.where(delta < 0, 0)
WhereNegative(s) ==
    Values([i \in 1..Len(s) |->
        IF IsNum(s[i]) /\ s[i].v < 0 THEN s[i] ELSE Num(0)])

\* -s
Negate(s) ==
    Values([i \in 1..Len(s) |-> IF IsNum(s[i]) THEN Num(-s[i].v) ELSE s[i]])

\* Series.abs()
AbsSeries(s) ==
    Values([i \in 1..Len(s) |->
        IF IsNum(s[i]) THEN Num(Abs(s[i].v)) ELSE s[i]])

RECURSIVE SumCells(_, _, _)
\* the sum of the numbers among s[lo..hi]
SumCells(s, lo, hi) ==
    IF lo > hi THEN 0
    ELSE (IF IsNum(s[hi]) THEN s[hi].v ELSE 0) + SumCells(s, lo, hi - 1)

RECURSIVE RunningSums(_, _, _)
\* out[i] = [sum, nobs] of the numbers among s[1..i], built left to right
RunningSums(s, i, out) ==
    IF i > Len(s) THEN out
    ELSE LET before == IF i = 1 THEN [sum |-> 0, nobs |-> 0] ELSE out[i - 1]
         IN RunningSums(s, i + 1,
                Append(out,
                       IF IsNum(s[i])
                       THEN [sum |-> before.sum + s[i].v,
                             nobs |-> before.nobs + 1]
                       ELSE before))

\* Series.rolling(window).mean(): min_periods is the window, so a position
\* has a mean only when its window holds `window` numbers.  pandas slides the
\* window, adding the entering value and removing the leaving one
RollingMean(s, window) ==
    LET run == RunningSums(s, 1, <<>>)
        leaving(i) == IF i > window THEN run[i - window]
                      ELSE [sum |-> 0, nobs |-> 0]
    IN Values([i \in 1..Len(s) |->
           LET nobs == run[i].nobs - leaving(i).nobs
               sum_x == run[i].sum - leaving(i).sum
           IN IF nobs >= window /\ nobs > 0
              THEN Num(RoundDiv(sum_x, nobs))
              ELSE NaN])

\* float division a / b of two cells; a zero divisor gives an infinity, or
\* NaN for 0 / 0, and never raises.  (A zero loss mean may be -0.0 in pandas,
\* as loss is a negated series; the quotient is then -inf where PosInf
\* stands here, and RsiOfRs maps both infinities to the same value.)
FloatDiv(a, b) ==
    IF ~IsNum(a) \/ ~IsNum(b) THEN NaN
    ELSE IF b.v = 0
         THEN (IF a.v = 0 THEN NaN ELSE IF a.v > 0 THEN PosInf ELSE NegInf)
         ELSE IF b.v > 0 THEN Num(RoundDiv(a.v * One, b.v))
              ELSE Num(-RoundDiv(a.v * One, -b.v))

\* 100 - (100 / (1 + rs)) of one cell
RsiOfRs(rs) ==
    IF rs.k \in {"inf", "ninf"} THEN Num(100 * One)   \* 100 - 100 / inf
    ELSE IF ~IsNum(rs) THEN NaN
    ELSE LET d == FloatDiv(Num(100 * One), Num(One + rs.v))
         IN IF IsNum(d) THEN Num(100 * One - d.v) ELSE d

RECURSIVE EwmMean(_, _, _)
\* Series.ewm(span=span, adjust=False).mean() of a series of numbers, up to
\* position n: out[1] = s[1], then out[i] = (1 - a) * out[i-1] + a * s[i] with
\* a = 2 / (span + 1); pandas keeps the old value when s[i] equals it.  Every
\* series it is given here holds numbers only (closes, the MACD line)
EwmMean(s, span, n) ==
    IF n = 0 THEN <<>>
    ELSE IF n = 1 THEN <<s[1]>>
    ELSE LET before == EwmMean(s, span, n - 1)
             weighted == before[n - 1].v
             cur == s[n].v
         IN Append(before,
                   IF weighted # cur
                   THEN Num(RoundDiv((span - 1) * weighted + 2 * cur,
                                     span + 1))
                   ELSE Num(weighted))

RECURSIVE EwmMeanWilder(_, _, _)
\* the same recurrence with Wilder's smoothing factor a = 1 / span
EwmMeanWilder(s, span, n) ==
    IF n = 0 THEN <<>>
    ELSE IF n = 1 THEN <<s[1]>>
    ELSE LET before == EwmMeanWilder(s, span, n - 1)
             weighted == before[n - 1].v
             cur == s[n].v
         IN Append(before,
                   IF weighted # cur
                   THEN Num(RoundDiv((span - 1) * weighted + cur, span))
                   ELSE Num(weighted))

---------------------------------------------------------------------------
(* TradingAnalyzer._calculate_rsi, _calculate_ema, _calculate_macd *)

_calculate_rsi(s, p) ==
    LET delta == Diff(s)
        gain == RollingMean(WherePositive(delta), p)
        loss == RollingMean(Negate(WhereNegative(delta)), p)
        rs == Values([i \in 1..Len(s) |-> FloatDiv(gain[i], loss[i])])
    IN Values([i \in 1..Len(s) |-> RsiOfRs(rs[i])])

\* _calculate_ema with alpha = 1 / period
CalculateEmaWilder(s, p) == EwmMeanWilder(s, p, Len(s))

_calculate_ema(s, p) == EwmMean(s, p, Len(s))

---------------------------------------------------------------------------
(* Frames.  A frame is a pandas DataFrame or Python's None: none says     *)
(* which, cols is the set of its columns and rows the sequence of its     *)
(* rows.  A row holds one cell per column the program ever creates; the   *)
(* cell of a column that is not in cols is never read.                    *)

IndicatorCols == {"RSI", "MACD_12_26_9", "MACDs_12_26_9", "MACDh_12_26_9",
                  "EMA9", "EMA21", "Volume", "MediaVolume"}
AllCols == {"close"} \cup IndicatorCols

NoneFrame == [none |-> TRUE, cols |-> {}, rows |-> <<>>]
Frame(cs, rs) == [none |-> FALSE, cols |-> cs, rows |-> rs]

Row(ts, close, rsi, macd, macds, macdh, ema9, ema21, vol, mvol) ==
    [timestamp |-> ts, close |-> close, RSI |-> rsi,
     MACD_12_26_9 |-> macd, MACDs_12_26_9 |-> macds, MACDh_12_26_9 |-> macdh,
     EMA9 |-> ema9, EMA21 |-> ema21, Volume |-> vol, MediaVolume |-> mvol]

\* a row of a frame that has only the close column
CloseRow(ts, close) ==
    Row(ts, close, NaN, NaN, NaN, NaN, NaN, NaN, NaN, NaN)

\* df.empty: some axis has length 0
Empty(f) == f.cols = {} \/ Len(f.rows) = 0

\* Series.get that answers 0 for a column the frame does not have
GetMissingAsZero(f, row, col, default) ==
    IF col \in f.cols THEN row[col] ELSE Num(0)

\* Series.get(col, default) on a row of frame f
Get(f, row, col, default) == IF col \in f.cols THEN row[col] ELSE default

---------------------------------------------------------------------------
(* TradingAnalyzer._calculate_macd and calculate_indicators *)

\* elementwise a - b of two series of numbers
SeriesSub(a, b) ==
    Values([i \in 1..Len(a) |->
        IF IsNum(a[i]) /\ IsNum(b[i]) THEN Num(a[i].v - b[i].v) ELSE NaN])

\* _calculate_macd with the signal line taken from the prices
CalculateMacdSignalOfPrices(s, fast, slow, sig) ==
    LET ema_fast == _calculate_ema(s, fast)
        ema_slow == _calculate_ema(s, slow)
        macd_line == SeriesSub(ema_fast, ema_slow)
        signal_line == _calculate_ema(s, sig)
    IN [macd_line |-> macd_line, signal_line |-> signal_line,
        histogram |-> SeriesSub(macd_line, signal_line)]

_calculate_macd(s, fast, slow, sig) ==
    LET ema_fast == _calculate_ema(s, fast)
        ema_slow == _calculate_ema(s, slow)
        macd_line == SeriesSub(ema_fast, ema_slow)
        signal_line == _calculate_ema(macd_line, sig)
    IN [macd_line |-> macd_line, signal_line |-> signal_line,
        histogram |-> SeriesSub(macd_line, signal_line)]

\* pd.to_numeric of one cell: a number stays, a text that spells a number
\* becomes it, a missing value becomes NaN; any other text raises ValueError
Parses(c) == c.k # "bad"
ToNumeric(c) ==
    IF c.k = "num" THEN c
    ELSE IF c.k = "str" THEN Num(c.v)
    ELSE NaN

\* the volume taken as the signed price change
VolumeSigned(close) == Diff(close)

\* df["Volume"] of a close series
VolumeOf(close) == AbsSeries(Diff(close))

\* df["MediaVolume"] of the volume
MediaVolumeOf(volume) == RollingMean(volume, volume_window)

\* the frame the try block builds on its copy of f when nothing raises
WithIndicators(f) ==
    LET n == Len(f.rows)
        close == Values([i \in 1..n |-> ToNumeric(f.rows[i].close)])
        rsi == _calculate_rsi(close, rsi_period)
        macd == _calculate_macd(close, macd_fast, macd_slow, macd_signal)
        ema9 == _calculate_ema(close, ema_short)
        ema21 == _calculate_ema(close, ema_long)
        volume == VolumeOf(close)
        media == MediaVolumeOf(volume)
    IN Frame(f.cols \cup AllCols,
             [i \in 1..n |->
                 Row(f.rows[i].timestamp, close[i], rsi[i],
                     macd.macd_line[i], macd.signal_line[i],
                     macd.histogram[i], ema9[i], ema21[i],
                     volume[i], media[i])])

\* whether the try block raises: None has no copy(), a frame may lack the
\* close column, and pd.to_numeric rejects a text that spells no number
CalculationRaises(f) ==
    \/ f.none
    \/ "close" \notin f.cols
    \/ \E i \in 1..Len(f.rows) : ~Parses(f.rows[i].close)

\* calculate_indicators working on the caller's frame itself (no df.copy())
CalculateIndicatorsInPlace(f) ==
    IF CalculationRaises(f)
    THEN [caller |-> f, result |-> f]
    ELSE [caller |-> WithIndicators(f), result |-> WithIndicators(f)]

\* calculate_indicators: the caller's frame after the call and the frame
\* returned.  The columns are assigned to a copy; when the try block raises,
\* the except clause returns df as it is then: None if copy() raised, else
\* the copy, which no assignment has changed yet
calculate_indicators(f) ==
    IF CalculationRaises(f)
    THEN [caller |-> f, result |-> f]
    ELSE [caller |-> f, result |-> WithIndicators(f)]

---------------------------------------------------------------------------
(* TradingAnalyzer.generate_signal *)

NoRecord == [k |-> "none"]
Raised == [k |-> "exception"]

Record(sig, preco, rsi, macd, macds, ema9, ema21, volume, media) ==
    [k |-> "record", signal |-> sig, price |-> preco, rsi |-> rsi,
     macd |-> macd, macd_signal |-> macds, ema9 |-> ema9,
     ema21 |-> ema21, volume |-> volume, volume_avg |-> media]

\* the first guard of the try block; on None, df.empty is never evaluated
TooShort(f) == f.none \/ Empty(f) \/ Len(f.rows) < 2

\* the first guard without its len(df) < 2 disjunct
TooShortNoLen(f) == f.none \/ Empty(f)

\* the latest values read with .get, and what the try block does with them
Evaluate(f) ==
    LET latest == f.rows[Len(f.rows)]
        rsi == Get(f, latest, "RSI", None)
        macd_valor == Get(f, latest, "MACD_12_26_9", None)
        sinal_macd == Get(f, latest, "MACDs_12_26_9", None)
        ema9 == Get(f, latest, "EMA9", None)
        ema21 == Get(f, latest, "EMA21", None)
        preco == Get(f, latest, "close", None)
        volume == Get(f, latest, "Volume", Num(0))
        media_volume == Get(f, latest, "MediaVolume", Num(0))
    IN IF \E c \in {rsi, macd_valor, sinal_macd, ema9, ema21, preco} : IsNa(c)
       THEN NoRecord
       ELSE IF \E c \in {rsi, macd_valor, sinal_macd, ema9, ema21} : ~IsNum(c)
            \* a text compared with a number: TypeError
            THEN Raised
            ELSE Record(_determine_signal(rsi.v, macd_valor.v, sinal_macd.v,
                                          ema9.v, ema21.v),
                        preco, rsi, macd_valor, sinal_macd, ema9, ema21,
                        volume, media_volume)

\* the body of the try block: what it returns, or Raised
GenerateSignalBody(f) ==
    IF TooShort(f) THEN NoRecord ELSE Evaluate(f)

\* the try block with the except clause: every exception becomes None
Caught(r) == IF r = Raised THEN NoRecord ELSE r

\* generate_signal without the len(df) < 2 guard
GenerateSignalNoLenGuard(f) ==
    Caught(IF TooShortNoLen(f) THEN NoRecord ELSE Evaluate(f))

\* generate_signal with a BUY or SELL kept only when the volume read from the
\* latest row is above its average
GenerateSignalVolumeConfirmed(f) ==
    LET r == Caught(GenerateSignalBody(f))
    IN IF /\ r.k = "record"
          /\ r.signal # HOLD
          /\ ~(IsNum(r.volume) /\ IsNum(r.volume_avg)
               /\ r.volume.v > r.volume_avg.v)
       THEN [r EXCEPT !.signal = HOLD]
       ELSE r

generate_signal(f) == Caught(GenerateSignalBody(f))

---------------------------------------------------------------------------
(* TradingAnalyzer.get_signal_strength *)

\* Python's min(a, b): the first argument unless the second is smaller
PyMin(a, b) == IF b < a THEN b ELSE a
PyMax(a, b) == IF b > a THEN b ELSE a

\* the RSI step of the score
RsiStrength(rsi) ==
    IF rsi > 70 * One THEN 2 * One
    ELSE IF rsi > 60 * One THEN One
    ELSE IF rsi < 30 * One THEN -(2 * One)
    ELSE IF rsi < 40 * One THEN -One
    ELSE 0

\* the MACD step
MacdStrength(macd, sinal) ==
    LET macd_diff == Abs(macd - sinal)
    IN IF macd > sinal
       THEN PyMin(2 * One, macd_diff * 100)
       ELSE -PyMin(2 * One, macd_diff * 100)

\* the MACD step with the gap left unscaled
MacdStrengthUnscaled(macd, sinal) ==
    LET macd_diff == Abs(macd - sinal)
    IN IF macd > sinal
       THEN PyMin(2 * One, macd_diff)
       ELSE -PyMin(2 * One, macd_diff)

\* the EMA step; ema21 is an average of prices, which are above zero
EmaStrength(ema9, ema21) ==
    LET ema_diff == RoundDiv(Abs(ema9 - ema21) * One, ema21) * 100
    IN IF ema9 > ema21
       THEN PyMin(2 * One, ema_diff)
       ELSE -PyMin(2 * One, ema_diff)

\* the score with the MACD gap left unscaled
GetSignalStrengthUnscaled(r) ==
    IF \E c \in {r.rsi, r.macd, r.macd_signal, r.ema9, r.ema21} : ~IsNum(c)
    THEN Num(50 * One)
    ELSE LET raw == RsiStrength(r.rsi.v)
                    + MacdStrengthUnscaled(r.macd.v, r.macd_signal.v)
                    + EmaStrength(r.ema9.v, r.ema21.v)
         IN Num(PyMax(0, PyMin(100 * One, (raw + 10 * One) * 5)))

\* get_signal_strength of a record: arithmetic on a field that is no number
\* raises, and the except clause answers the neutral 50
get_signal_strength(r) ==
    IF \E c \in {r.rsi, r.macd, r.macd_signal, r.ema9, r.ema21} : ~IsNum(c)
    THEN Num(50 * One)
    ELSE LET raw == RsiStrength(r.rsi.v)
                    + MacdStrength(r.macd.v, r.macd_signal.v)
                    + EmaStrength(r.ema9.v, r.ema21.v)
         IN Num(PyMax(0, PyMin(100 * One, (raw + 10 * One) * 5)))

---------------------------------------------------------------------------
(* TradingAnalyzer.format_signal_message, TelegramNotifier.enviar_mensagem *)
(* and the pieces of the app script's cycle                                *)

\* word in signal, for the three texts _determine_signal returns
Mentions(sig, word) ==
    \/ word = "COMPRA" /\ sig = BUY
    \/ word = "VENDA" /\ sig = SELL
    \/ word = "AGUARDAR" /\ sig = HOLD

\* a number printed with a format of step units (.2f: 0.01, .1f: 0.1)
Printed(n, step) == RoundDiv(n, step) * step

\* a float format applied to a value that is no number raises
FormatRaises(r) ==
    /\ ~Mentions(r.signal, "AGUARDAR")
    /\ \E c \in {r.price, r.rsi, r.macd} : ~IsNum(c)

\* the text of the message, as the fields it spells
format_signal_message(r) ==
    IF ~Mentions(r.signal, "AGUARDAR")
    THEN [text |-> r.signal,
          action |-> IF Mentions(r.signal, "COMPRA")
                     THEN "COMPRA RECOMENDADA" ELSE "VENDA RECOMENDADA",
          bitcoin |-> Printed(r.price.v, 10 * Milli),
          rsi |-> Printed(r.rsi.v, 100 * Milli),
          macd |-> r.macd.v,
          tendencia |-> IF r.ema9.v > r.ema21.v THEN "Alta" ELSE "Baixa"]
    ELSE [text |-> r.signal]

\* what the Telegram request may come to, and what enviar_mensagem answers:
\* it catches every exception
DeliveryOutcomes == {"200", "other status", "exception"}
enviar_mensagem(outcome) == outcome = "200"

\* signal_data after the script sets its timestamp
Stamped(r, ts) ==
    [k |-> "record", signal |-> r.signal, price |-> r.price, rsi |-> r.rsi,
     macd |-> r.macd, macd_signal |-> r.macd_signal, ema9 |-> r.ema9,
     ema21 |-> r.ema21, volume |-> r.volume, volume_avg |-> r.volume_avg,
     timestamp |-> ts]

\* every record counted as new
IsNewSignalAlways(h, r) == TRUE

\* the history is empty or its last record has another signal
IsNewSignal(h, r) == Len(h) = 0 \/ h[Len(h)].signal # r.signal

HistoryKeep == 50

\* the trim keeping the first records
KeepFirst(h) ==
    IF Len(h) > HistoryKeep THEN SubSeq(h, 1, HistoryKeep) ELSE h

\* the trim of the history to its last HistoryKeep records
KeepLast(h) ==
    IF Len(h) > HistoryKeep
    THEN SubSeq(h, Len(h) - HistoryKeep + 1, Len(h))
    ELSE h

\* the notification condition without its test of the signal
ShouldNotifyAnySignal(enabled, r) == enabled

\* the notification condition
ShouldNotify(enabled, r) ==
    enabled /\ (Mentions(r.signal, "COMPRA") \/ Mentions(r.signal, "VENDA"))

---------------------------------------------------------------------------
(* The idle values of the variables an operation does not use *)

Pending == [k |-> "pending"]
NoArgs == [rsi |-> 0, macd |-> 0, macd_signal |-> 0, ema9 |-> 0, ema21 |-> 0]
NoFrame == [none |-> TRUE, cols |-> {}, rows |-> <<>>]
NotCalled == [none |-> TRUE, cols |-> {"not called"}, rows |-> <<>>]

IdleDecide == args = NoArgs /\ signal = "pending"
IdleSignal == df = NoFrame /\ signal_data = Pending /\ pinned = Pending
NoSeries == [fn |-> "pending", vals |-> <<>>]
IdleFn == prices = <<>> /\ period = 0 /\ series_out = NoSeries
IdleIndicators == caller_df = NoFrame /\ ret = NotCalled /\ moves = 0
IdleStrength == strength = Pending
IdleApp ==
    /\ signals_history = <<>>
    /\ telegram_enabled = FALSE
    /\ outbox = <<>>
    /\ cycle = Pending
IdleFetch ==
    /\ tentativas = 0
    /\ tentativa = 0
    /\ requests = <<>>
    /\ fetched = Pending

---------------------------------------------------------------------------
(* Calls of _determine_signal on every five-tuple of a grid that holds     *)
(* each threshold of the two rules, a value on each side of it, and MACD   *)
(* gaps below, at and above 0.001.                                         *)

RsiGrid == {20 * One, SellRsiLow * One, SellRsiLow * One + 1,
            BuyRsiLow * One, BuyRsiLow * One + 1, 50 * One,
            SellRsiHigh * One - 1, SellRsiHigh * One,
            BuyRsiHigh * One - 1, BuyRsiHigh * One, 80 * One}
MacdGrid == {-3, 0, 1, 2, 3}
EmaGrid == {99 * One, 100 * One, 101 * One}

ArgGrid == [rsi : RsiGrid, macd : MacdGrid, macd_signal : MacdGrid,
            ema9 : EmaGrid, ema21 : EmaGrid]

InitDecide ==
    /\ args \in ArgGrid
    /\ signal = "pending"
    /\ IdleSignal /\ IdleFn /\ IdleIndicators
    /\ IdleStrength /\ IdleApp /\ IdleFetch

DetermineSignal ==
    /\ signal = "pending"
    /\ signal' = _determine_signal(args.rsi, args.macd, args.macd_signal,
                                   args.ema9, args.ema21)
    /\ UNCHANGED <<args, df, signal_data, pinned, prices, period, series_out,
                   caller_df, ret, moves,
                   strength, appVars, fetchVars>>

NextDecide == DetermineSignal

SpecDecide == InitDecide /\ [][NextDecide]_vars

---------------------------------------------------------------------------
(* Calls of generate_signal by one analyzer, on frames of no, one or two   *)
(* rows whose latest row takes each governing field, the price and the     *)
(* volume from a few values, NaN among them.  The analyzer is built once    *)
(* (app.py, get_components) and used by every run of main: a second call   *)
(* follows the first, whose governing fields and result stay in pinned.    *)

SigRsi == {NaN, Num(50 * One)}
SigMacd == {NaN, Num(0), Num(3)}
SigEma == {NaN, Num(100 * One), Num(101 * One)}
SigClose == {NaN, Num(100 * One), Num(105 * One)}
SigVolume == {Num(0), Num(One)}

LatestRows ==
    {Row(2, c, r, m, ms, Num(0), e9, e21, v, Num(One \div 2)) :
        c \in SigClose, r \in SigRsi, m \in SigMacd, ms \in SigMacd,
        e9 \in SigEma, e21 \in SigEma, v \in SigVolume}

\* two earlier rows: one with no indicator yet, one fully evaluated
EarlierBare == CloseRow(1, Num(90 * One))
EarlierFull == Row(1, Num(110 * One), Num(80 * One), Num(3), Num(0), Num(3),
                   Num(101 * One), Num(100 * One), Num(One), Num(One))

SignalFrames ==
    {NoneFrame, Frame(AllCols, <<>>),
     \* what calculate_indicators returns when pd.to_numeric raised
     Frame({"close"}, <<CloseRow(1, Txt(100 * One)), CloseRow(2, BadTxt)>>)}
    \cup {Frame(AllCols, <<l>>) : l \in LatestRows}
    \cup {Frame(AllCols, <<EarlierBare, l>>) : l \in LatestRows}
    \cup {Frame(AllCols, <<EarlierFull, [l EXCEPT !.timestamp = 7]>>) :
            l \in LatestRows}

\* the five governing fields of an evaluation's record
Governing(r) == <<r.rsi, r.macd, r.macd_signal, r.ema9, r.ema21>>

InitSignal ==
    /\ df \in SignalFrames
    /\ signal_data = Pending
    /\ pinned = Pending
    /\ IdleDecide /\ IdleFn /\ IdleIndicators
    /\ IdleStrength /\ IdleApp /\ IdleFetch

GenerateSignal ==
    /\ signal_data = Pending
    /\ signal_data' = generate_signal(df)
    /\ UNCHANGED <<args, signal, df, pinned, prices, period, series_out,
                   caller_df, ret, moves,
                   strength, appVars, fetchVars>>

\* the next run of main: the same analyzer is handed another frame
NextEvaluation ==
    /\ signal_data # Pending
    /\ signal_data.k = "record"
    /\ pinned = Pending
    /\ pinned' = [k |-> "pinned", governing |-> Governing(signal_data),
                  signal |-> signal_data.signal, price |-> signal_data.price,
                  timestamp |-> df.rows[Len(df.rows)].timestamp]
    /\ df' \in SignalFrames
    /\ signal_data' = Pending
    /\ UNCHANGED <<args, signal, prices, period, series_out,
                   caller_df, ret, moves,
                   strength, appVars, fetchVars>>

NextSignal == GenerateSignal \/ NextEvaluation

SpecSignal == InitSignal /\ [][NextSignal]_vars

---------------------------------------------------------------------------
(* Calls of _calculate_rsi and _calculate_ema on every series of at most   *)
(* MaxFnLen closes drawn from FnPrices, with every period up to MaxPeriod. *)

MaxFnLen == 5
MaxPeriod == 3
FnPrices == {Num(1 * One), Num(2 * One), Num(3 * One)}

FnSeries == UNION {[1..n -> FnPrices] : n \in 0..MaxFnLen}

InitFn ==
    /\ prices \in FnSeries
    /\ period \in 1..MaxPeriod
    /\ series_out = NoSeries
    /\ IdleDecide /\ IdleSignal /\ IdleIndicators
    /\ IdleStrength /\ IdleApp /\ IdleFetch

CalculateRsi ==
    /\ series_out = NoSeries
    /\ series_out' = [fn |-> "rsi", vals |-> _calculate_rsi(prices, period)]
    /\ UNCHANGED <<args, signal, df, signal_data, pinned, prices, period,
                   caller_df, ret, moves,
                   strength, appVars, fetchVars>>

CalculateEma ==
    /\ series_out = NoSeries
    /\ series_out' = [fn |-> "ema", vals |-> _calculate_ema(prices, period)]
    /\ UNCHANGED <<args, signal, df, signal_data, pinned, prices, period,
                   caller_df, ret, moves,
                   strength, appVars, fetchVars>>

NextFn == CalculateRsi \/ CalculateEma

SpecFn == InitFn /\ [][NextFn]_vars

---------------------------------------------------------------------------
(* Calls of calculate_indicators with the periods of __init__.  The frame  *)
(* is the one obter_dados_btc builds: a close column, one row per price    *)
(* point.  It grows a point at a time.  The close is at one of two levels: *)
(* a point repeats the close before it or moves to the other level; the    *)
(* first close may come as a text, and a text that spells no number ends   *)
(* the frame.  At most MaxMoves points do not repeat the point before.     *)
(* The caller hands each frame to calculate_indicators and what that       *)
(* returns to generate_signal.                                             *)
(* A frame grows to ExtraRows rows past the first full volume window.      *)

MaxMoves == 2
ExtraRows == 2
FrameLen == volume_window + ExtraRows
LowClose == 100 * One
HighClose == 101 * One

\* the number a close cell stands for
CloseValue(c) == ToNumeric(c).v

InitIndicators ==
    /\ caller_df \in {NoneFrame, Frame({"close"}, <<>>)}
    /\ ret = NotCalled
    /\ moves = 0
    /\ IdleDecide /\ IdleSignal /\ IdleFn
    /\ IdleStrength /\ IdleApp /\ IdleFetch

\* the closes the next point may have after the rows of f
NextCloses(f) ==
    LET n == Len(f.rows)
        prev == CloseValue(f.rows[n].close)
    IN IF n = 0 THEN {Num(LowClose), Txt(LowClose), BadTxt}
       ELSE {Num(prev), BadTxt,
             Num(IF prev = LowClose THEN HighClose ELSE LowClose)}

\* whether the point c repeats the point before it
Repeats(f, c) ==
    \/ Len(f.rows) = 0 /\ c = Num(LowClose)
    \/ Len(f.rows) > 0 /\ c = Num(CloseValue(f.rows[Len(f.rows)].close))

\* the data source has one more price point: the frame of the next fetch
Tick ==
    /\ ~caller_df.none
    /\ Len(caller_df.rows) < FrameLen
    /\ \A i \in 1..Len(caller_df.rows) : Parses(caller_df.rows[i].close)
    /\ \E c \in NextCloses(caller_df) :
        /\ moves' = IF Repeats(caller_df, c) THEN moves ELSE moves + 1
        /\ moves' <= MaxMoves
        /\ caller_df' = [caller_df EXCEPT
                           !.rows = Append(@, CloseRow(Len(@) + 1, c))]
    /\ ret' = NotCalled
    /\ signal_data' = Pending
    /\ UNCHANGED <<args, signal, df, pinned, prices, period, series_out,
                   strength, appVars, fetchVars>>

CalculateIndicators ==
    /\ ret = NotCalled
    /\ LET o == calculate_indicators(caller_df)
       IN /\ caller_df' = o.caller
          /\ ret' = o.result
    /\ UNCHANGED <<args, signal, df, signal_data, pinned, prices, period,
                   series_out, moves,
                   strength, appVars, fetchVars>>

\* the caller chains generate_signal on the frame calculate_indicators
\* returned, as the app does
GenerateSignalOfResult ==
    /\ ret # NotCalled
    /\ signal_data = Pending
    /\ signal_data' = generate_signal(ret)
    /\ UNCHANGED <<args, signal, df, pinned, prices, period, series_out,
                   caller_df, ret, moves, strength, appVars, fetchVars>>

NextIndicators == Tick \/ CalculateIndicators \/ GenerateSignalOfResult

SpecIndicators == InitIndicators /\ [][NextIndicators]_vars

---------------------------------------------------------------------------
(* Calls of get_signal_strength on the records generate_signal builds from *)
(* a grid of latest rows: an RSI on each step of the score and on each     *)
(* side of its thresholds, MACD gaps below and above the cap, EMA gaps of  *)
(* both signs, below and above the cap.                                    *)

StrRsi == {29 * One, 30 * One, 35 * One, 40 * One, 50 * One, 60 * One,
           65 * One, 70 * One, 71 * One}
StrMacd == {-50, -2, 0, 2, 30, 50}
StrMacdSignal == {0, 10}
StrEma9 == {97 * One, 99 * One, 100 * One, 100 * One + 100, 101 * One,
            103 * One}
StrEma21 == {100 * One, 200 * One}

StrengthRecords ==
    {generate_signal(Frame(AllCols,
        <<CloseRow(1, Num(100 * One)),
          Row(2, Num(100 * One), Num(r), Num(m), Num(ms), Num(m - ms),
              Num(e9), Num(e21), Num(0), Num(0))>>)) :
        r \in StrRsi, m \in StrMacd, ms \in StrMacdSignal,
        e9 \in StrEma9, e21 \in StrEma21}

InitStrength ==
    /\ signal_data \in StrengthRecords
    /\ strength = Pending
    /\ df = NoFrame /\ pinned = Pending
    /\ IdleDecide /\ IdleFn /\ IdleIndicators /\ IdleApp /\ IdleFetch

GetSignalStrength ==
    /\ strength = Pending
    /\ strength' = get_signal_strength(signal_data)
    /\ UNCHANGED <<engineVars, appVars, fetchVars>>

NextStrength == GetSignalStrength

SpecStrength == InitStrength /\ [][NextStrength]_vars

---------------------------------------------------------------------------
(* Runs of the app script (one evaluation cycle each) in one session.  A   *)
(* run reads the notification checkbox, fetches a frame, and evaluates,    *)
(* records and notifies.  The fetch answers None, a frame without rows, or *)
(* a frame of closes: one point, a flat series, a rise with pullbacks (the *)
(* engine answers BUY), its mirror (SELL), a steady rise (HOLD).  The      *)
(* session starts with an empty history, or with the history SeedLen runs  *)
(* with notifications off leave when rise and fall alternate.  The clock   *)
(* of the timestamps advances by one per run.                              *)

MaxCycles == 4
SeedLen == 49

PriceFrame(cl) ==
    Frame({"close"}, [i \in 1..Len(cl) |-> CloseRow(i, Num(cl[i] * One))])

OnePoint == <<100>>
FlatCloses == <<100, 100, 100, 100, 100, 100, 100, 100, 100, 100, 100, 100,
                100, 100, 100, 100, 100>>
RisingCloses == <<100, 100, 100, 100, 100, 100, 100, 100, 101, 100, 102, 101,
                  103, 102, 104, 103, 105>>
FallingCloses == <<105, 105, 105, 105, 105, 105, 105, 105, 104, 105, 103, 104,
                   102, 103, 101, 102, 100>>
SteadyCloses == <<100, 101, 102, 103, 104, 105, 106, 107, 108, 109, 110, 111,
                  112, 113, 114, 115, 116>>

FetchedFrames ==
    {NoneFrame, PriceFrame(<<>>), PriceFrame(OnePoint), PriceFrame(FlatCloses),
     PriceFrame(RisingCloses), PriceFrame(FallingCloses),
     PriceFrame(SteadyCloses)}

\* the two engine calls of a run, for each frame the fetch may answer: the
\* frame calculate_indicators returns and what generate_signal makes of it;
\* neither is called when the fetch answered None or a frame without rows
EngineCalls ==
    [f \in FetchedFrames |->
        IF f.none \/ Empty(f)
        THEN [df_with_indicators |-> NotCalled, signal_data |-> Pending]
        ELSE LET df_with_indicators == calculate_indicators(f).result
             IN [df_with_indicators |-> df_with_indicators,
                 signal_data |-> generate_signal(df_with_indicators)]]

\* the history after runs 1..n that fetched the rise and the fall in turn
SeedHistory(n) ==
    [i \in 1..n |->
        Stamped(EngineCalls[PriceFrame(IF i % 2 = 1 THEN RisingCloses
                                       ELSE FallingCloses)].signal_data, i)]

InitApp ==
    /\ signals_history \in {<<>>, SeedHistory(SeedLen)}
    /\ telegram_enabled = FALSE
    /\ outbox = <<>>
    /\ cycle = [k |-> "start", n |-> 0, now |-> Len(signals_history),
                appended |-> FALSE, handed |-> FALSE, delivered |-> FALSE]
    /\ df = NoFrame /\ signal_data = Pending /\ pinned = Pending
    /\ caller_df = NoFrame /\ ret = NotCalled /\ moves = 0
    /\ IdleDecide /\ IdleFn /\ IdleStrength /\ IdleFetch

\* one run of main()
RunScript ==
    /\ cycle.n < MaxCycles
    /\ \E f \in FetchedFrames : \E run \in {EngineCalls[f]} :
       \E enabled \in BOOLEAN, outcome \in DeliveryOutcomes :
       \E record \in {IF run.signal_data.k = "record"
                       THEN Stamped(run.signal_data, cycle.now + 1)
                       ELSE run.signal_data} :
        LET changed == /\ record.k = "record"
                       /\ IsNewSignal(signals_history, record)
            hands == /\ changed
                     /\ ShouldNotify(enabled, record)
                     /\ ~FormatRaises(record)
        IN /\ telegram_enabled' = enabled
           /\ df' = f
           /\ ret' = run.df_with_indicators
           /\ signal_data' = record
           /\ signals_history' =
                 IF changed THEN KeepLast(Append(signals_history, record))
                 ELSE signals_history
           /\ outbox' =
                 IF hands THEN Append(outbox, format_signal_message(record))
                 ELSE outbox
           /\ cycle' = [k |-> "ran", n |-> cycle.n + 1, now |-> cycle.now + 1,
                        appended |-> changed, handed |-> hands,
                        delivered |-> hands /\ enviar_mensagem(outcome)]
    /\ UNCHANGED <<args, signal, pinned, prices, period, series_out,
                   caller_df, moves, strength, fetchVars>>

NextApp == RunScript

SpecApp == InitApp /\ [][NextApp]_vars

---------------------------------------------------------------------------
(* One call of DataFetcher.obter_dados_btc, an iteration of its loop at a  *)
(* time.  The request of an iteration comes to an end (it has a timeout):  *)
(* with status 200 and a body that holds a list of prices, with status 200 *)
(* and a body the try block cannot turn into a frame (no "prices" key, a   *)
(* price that is no number), with status 429, with another status, or with *)
(* an exception.  tentativas is the caller's, or max_retries when the      *)
(* caller gives none.                                                      *)

MaxTentativas == 5
max_retries == 5
retry_delay == 10
limite == 100

\* dados[-limite:]
LastPoints(cl, n) ==
    IF Len(cl) > n THEN SubSeq(cl, Len(cl) - n + 1, Len(cl)) ELSE cl

Responses ==
    {[status |-> "200", parses |-> TRUE, prices |-> cl] :
        cl \in {<<>>, OnePoint, RisingCloses}}
    \cup {[status |-> st, parses |-> FALSE, prices |-> <<>>] :
            st \in {"200", "429", "other", "exception"}}

\* the loop runs one iteration more than range(tentativas)
InRangeInclusive(t, n) == t <= n

\* for tentativa in range(tentativas)
InRange(t, n) == t < n

\* the sleep after a request that did not return
WaitAfter(resp, t, n) ==
    IF resp.status = "429" THEN retry_delay * 2
    ELSE IF t < n - 1 THEN retry_delay
    ELSE 0

InitFetch ==
    /\ tentativas \in (0..MaxTentativas) \cup {max_retries}
    /\ tentativa = 0
    /\ requests = <<>>
    /\ fetched = Pending
    /\ df = NoFrame /\ signal_data = Pending /\ pinned = Pending
    /\ IdleDecide /\ IdleFn /\ IdleIndicators /\ IdleStrength /\ IdleApp

\* an iteration whose request answers 200 with prices: the frame is built
\* and returned
RequestReturns ==
    /\ fetched = Pending
    /\ InRange(tentativa, tentativas)
    /\ \E resp \in Responses :
        /\ resp.status = "200" /\ resp.parses
        /\ requests' = Append(requests, [resp |-> resp, wait |-> 0])
        /\ fetched' = PriceFrame(LastPoints(resp.prices, limite))
    /\ UNCHANGED <<engineVars, strength, appVars, tentativas, tentativa>>

\* an iteration that does not return: the message is printed, the loop
\* sleeps and goes on to the next value of tentativa
RequestFails ==
    /\ fetched = Pending
    /\ InRange(tentativa, tentativas)
    /\ \E resp \in Responses :
        /\ ~(resp.status = "200" /\ resp.parses)
        /\ requests' = Append(requests,
               [resp |-> resp,
                wait |-> WaitAfter(resp, tentativa, tentativas)])
    /\ tentativa' = tentativa + 1
    /\ UNCHANGED <<engineVars, strength, appVars, tentativas, fetched>>

\* the loop is over: return None
ReturnNone ==
    /\ fetched = Pending
    /\ ~InRange(tentativa, tentativas)
    /\ fetched' = NoneFrame
    /\ UNCHANGED <<engineVars, strength, appVars, tentativas, tentativa,
                   requests>>

NextFetch == RequestReturns \/ RequestFails \/ ReturnNone

\* the call keeps running until it returns
SpecFetch == InitFetch /\ [][NextFetch]_vars /\ WF_vars(NextFetch)

---------------------------------------------------------------------------
\* C1: a _determine_signal call returns BUY exactly when 45 < rsi < 75, macd >
\* macd_signal, ema_short > ema_long and macd - macd_signal > 0.001; failing
\* that, SELL exactly when 25 < rsi < 55, macd < macd_signal, ema_short <
\* ema_long and macd_signal - macd > 0.001; and HOLD in every other case.
C1_DecisionTable ==
    signal # "pending" =>
        LET buy == /\ 45 * One < args.rsi /\ args.rsi < 75 * One
                   /\ args.macd > args.macd_signal
                   /\ args.ema9 > args.ema21
                   /\ args.macd - args.macd_signal > Milli
            sell == /\ 25 * One < args.rsi /\ args.rsi < 55 * One
                    /\ args.macd < args.macd_signal
                    /\ args.ema9 < args.ema21
                    /\ args.macd_signal - args.macd > Milli
        IN /\ (signal = BUY) <=> buy
           /\ (signal = SELL) <=> (~buy /\ sell)
           /\ (signal = HOLD) <=> (~buy /\ ~sell)

\* a bullish input whose MACD gap is exactly 0.001 has been classified
C1_Witness ==
    /\ signal = HOLD
    /\ args.rsi = 50 * One
    /\ args.macd - args.macd_signal = Milli
    /\ args.ema9 > args.ema21

\* C2: no five-tuple satisfies the BUY rule and the SELL rule at once, so the
\* call returns what it would return with the SELL rule evaluated first.
C2_RulesExclusive ==
    LET buy == BuyCondition(args.rsi, args.macd, args.macd_signal,
                            args.ema9, args.ema21)
        sell == SellCondition(args.rsi, args.macd, args.macd_signal,
                              args.ema9, args.ema21)
    IN /\ ~(buy /\ sell)
       /\ signal # "pending" =>
              signal = (IF sell THEN SELL ELSE IF buy THEN BUY ELSE HOLD)

\* an input with rsi in the band the two rules share has been classified SELL
C2_Witness ==
    /\ signal = SELL
    /\ args.rsi > BuyRsiLow * One
    /\ args.rsi < SellRsiHigh * One

\* C3: two evaluations by the same analyzer that both give a record and
\* agree on rsi, macd, macd_signal, ema_short and ema_long give the same
\* signal class, whatever their prices, timestamps, volumes and earlier rows.
C3_ClassFromGoverningFields ==
    (pinned # Pending /\ signal_data # Pending /\ signal_data.k = "record"
     /\ Governing(signal_data) = pinned.governing)
        => signal_data.signal = pinned.signal

\* a second evaluation agreeing with the first on the governing fields only:
\* another price, another timestamp, another earlier row, another volume
C3_Witness ==
    /\ pinned # Pending /\ signal_data # Pending /\ signal_data.k = "record"
    /\ Governing(signal_data) = pinned.governing
    /\ signal_data.price # pinned.price
    /\ df.rows[Len(df.rows)].timestamp # pinned.timestamp
    /\ df.rows[1] = EarlierFull
    /\ signal_data.volume = Num(0)
    /\ signal_data.signal = BUY

\* the inputs C4 lists: no frame, no rows, fewer than two rows, or a latest
\* row with a missing value among the five governing fields and the price
C4_Insufficient(f) ==
    \/ f.none
    \/ Len(f.rows) < 2
    \/ \E col \in {"RSI", "MACD_12_26_9", "MACDs_12_26_9", "EMA9", "EMA21",
                   "close"} :
           \/ col \notin f.cols
           \/ f.rows[Len(f.rows)][col] \in {NaN, None}

\* C4: generate_signal never raises; it returns None on each of the inputs
\* C4 lists, and a record on every other frame.
C4_NoneIffInsufficient ==
    signal_data # Pending =>
        /\ signal_data.k \in {"none", "record"}
        /\ (signal_data.k = "none") <=> C4_Insufficient(df)

\* a one-row frame whose row has every field was answered with None
C4_Witness ==
    /\ signal_data # Pending
    /\ signal_data.k = "none"
    /\ ~df.none
    /\ Len(df.rows) = 1
    /\ \A col \in AllCols : IsNum(df.rows[1][col])

\* whether calculate_indicators has returned a frame with indicators
Calculated == ret # NotCalled /\ ~ret.none /\ IndicatorCols \subseteq ret.cols

\* a column of the returned frame
RetCol(col) == [i \in 1..Len(ret.rows) |-> ret.rows[i][col]]

\* C5: the RSI of period p is null at every index below p and, in a series of
\* at least p + 1 points, not null at index p (index i is row i + 1); here
\* for the RSI column calculate_indicators computes with rsi_period.
C5_FirstRsiAtPeriod ==
    Calculated =>
        /\ \A i \in 1..Len(ret.rows) :
               i < rsi_period + 1 => ret.rows[i].RSI = NaN
        /\ Len(ret.rows) >= rsi_period + 1
               => ret.rows[rsi_period + 1].RSI # NaN

\* the losses of the window of `period` deltas that ends at position i
WindowLoss(i) ==
    SumCells(Negate(WhereNegative(Diff(prices))), i - period + 1, i)

\* C6: at an index whose window is full and holds no loss, the RSI is 100,
\* whatever the gains of the window are.
C6_ZeroLossGivesHundred ==
    series_out.fn = "rsi" =>
        \A i \in 1..Len(prices) :
            (i >= period + 1 /\ WindowLoss(i) = 0)
                => series_out.vals[i] = Num(100 * One)

\* C7: the EMA has one value per close and no null; it starts at the first
\* close, and each later value is close * a + previous * (1 - a) with
\* a = 2 / (p + 1); on a constant series every value is the constant.
C7_EmaRecurrence ==
    series_out.fn = "ema" =>
        /\ Len(series_out.vals) = Len(prices)
        /\ \A i \in 1..Len(prices) :
            /\ IsNum(series_out.vals[i])
            /\ i = 1 => series_out.vals[i] = prices[1]
            /\ i > 1 => series_out.vals[i].v =
                          RoundDiv(2 * prices[i].v
                                   + (period - 1) * series_out.vals[i - 1].v,
                                   period + 1)
        /\ (\A i \in 1..Len(prices) : prices[i] = prices[1])
               => \A i \in 1..Len(prices) : series_out.vals[i] = prices[1]

\* an EMA of period 3 over a series that rises and falls
C7_Witness ==
    /\ series_out.fn = "ema"
    /\ period = 3
    /\ Len(prices) >= 4
    /\ prices[1].v < prices[2].v
    /\ prices[3].v < prices[2].v
    /\ series_out.vals[2] # prices[2]

\* C8: in the returned frame the MACD column is EMA(12) - EMA(26) of the
\* close, the signal column starts at the first MACD value and then follows
\* the EMA(9) recurrence over the MACD column, and the histogram column is
\* MACD - signal in every row.
C8_MacdColumns ==
    Calculated =>
        LET close == RetCol("close")
            fast == _calculate_ema(close, 12)
            slow == _calculate_ema(close, 26)
        IN \A i \in 1..Len(ret.rows) :
            LET r == ret.rows[i]
            IN /\ r.MACD_12_26_9 = Num(fast[i].v - slow[i].v)
               /\ i = 1 => r.MACDs_12_26_9 = r.MACD_12_26_9
               /\ i > 1 => r.MACDs_12_26_9 =
                     Num(RoundDiv(2 * r.MACD_12_26_9.v
                                  + 8 * ret.rows[i - 1].MACDs_12_26_9.v, 10))
               /\ r.MACDh_12_26_9 =
                     Num(r.MACD_12_26_9.v - r.MACDs_12_26_9.v)

\* a frame whose close has moved: its MACD line and its signal line differ
C8_Witness ==
    /\ Calculated
    /\ Len(ret.rows) >= 4
    /\ ret.rows[4].MACD_12_26_9.v > 0
    /\ ret.rows[4].MACDs_12_26_9.v > 0
    /\ ret.rows[4].MACDh_12_26_9.v > 0

\* C9: in the returned frame the volume is null in the first row and the
\* absolute change of the close in every later row; the volume average is
\* null at every index below 20 and from index 20 on the mean of the 20 most
\* recent volumes.
C9_VolumeColumns ==
    Calculated =>
        \A i \in 1..Len(ret.rows) :
            LET r == ret.rows[i]
            IN /\ i = 1 => r.Volume = NaN
               /\ i > 1 => r.Volume =
                     Num(Abs(r.close.v - ret.rows[i - 1].close.v))
               /\ i < 20 + 1 => r.MediaVolume = NaN
               /\ i >= 20 + 1 => r.MediaVolume =
                     Num(RoundDiv(SumCells(RetCol("Volume"), i - 19, i), 20))

\* a frame of 22 rows whose close fell inside the last window
C9_Witness ==
    /\ Calculated
    /\ Len(ret.rows) = 22
    /\ ret.rows[20].MediaVolume = NaN
    /\ \E i \in 3..22 : ret.rows[i].close.v < ret.rows[i - 1].close.v
    /\ ret.rows[21].MediaVolume # ret.rows[22].MediaVolume
    /\ ret.rows[22].MediaVolume.v > 0

\* C10: a call of calculate_indicators leaves the caller's frame as it was
\* (rows, order, close cells, columns), whether or not it raised inside; a
\* frame it returns with indicators has one row per row of the input, in the
\* same order, with the close the input row spells.
C10_InputUntouched ==
    [][CalculateIndicators =>
          /\ caller_df' = caller_df
          /\ (IndicatorCols \subseteq ret'.cols) =>
               /\ Len(ret'.rows) = Len(caller_df.rows)
               /\ \A i \in 1..Len(caller_df.rows) :
                    /\ ret'.rows[i].timestamp = caller_df.rows[i].timestamp
                    /\ ret'.rows[i].close = ToNumeric(caller_df.rows[i].close)
      ]_vars

\* a full frame has been computed from a frame whose first close is a text:
\* the caller still holds the text and only the close column
C10_Witness ==
    /\ Calculated
    /\ Len(ret.rows) = FrameLen
    /\ caller_df.cols = {"close"}
    /\ caller_df.rows[1].close = Txt(LowClose)
    /\ ret.rows[1].close = Num(LowClose)

\* C11: calculate_indicators never raises: when its computation fails (no
\* frame, no close column, a close that spells no number) it returns the
\* frame as it stood, without indicator columns, and generate_signal chained
\* on what it returned, as on the result for a frame without rows, answers
\* None; a record is only ever built from a latest row whose five governing
\* indicators were computed.
C11_FailureDegrades ==
    ret # NotCalled =>
        /\ CalculationRaises(caller_df) =>
              /\ ret = caller_df
              /\ ret.cols \cap IndicatorCols = {}
        /\ signal_data # Pending =>
              /\ signal_data.k \in {"none", "record"}
              /\ (CalculationRaises(caller_df) \/ Len(caller_df.rows) = 0) =>
                    signal_data = NoRecord
              /\ signal_data.k = "record" =>
                    /\ Calculated
                    /\ \A col \in {"RSI", "MACD_12_26_9", "MACDs_12_26_9",
                                    "EMA9", "EMA21"} :
                           IsNum(ret.rows[Len(ret.rows)][col])

\* a frame of two rows or more whose last close spells no number came back
\* with its close column only, and the chained generate_signal answered None
C11_Witness ==
    /\ ret # NotCalled
    /\ ~caller_df.none
    /\ Len(caller_df.rows) >= 2
    /\ caller_df.rows[Len(caller_df.rows)].close = BadTxt
    /\ ret.cols = {"close"}
    /\ signal_data = NoRecord

\* the score as C13 words it: each term by its sign and its capped size
C13_Sign(n) == IF n > 0 THEN 1 ELSE IF n < 0 THEN -1 ELSE 0
C13_Raw ==
    LET r == signal_data
        rsi == r.rsi.v
        gap == r.macd.v - r.macd_signal.v
        trend == r.ema9.v - r.ema21.v
    IN (IF rsi > 70 * One THEN 2 * One
        ELSE IF 60 * One < rsi /\ rsi <= 70 * One THEN One
        ELSE IF rsi < 30 * One THEN -(2 * One)
        ELSE IF 30 * One <= rsi /\ rsi < 40 * One THEN -One
        ELSE 0)
       + C13_Sign(gap) * PyMin(2 * One, Abs(gap) * 100)
       + C13_Sign(trend)
           * PyMin(2 * One, RoundDiv(Abs(trend) * One, r.ema21.v) * 100)
C13_Clamped ==
    LET x == (C13_Raw + 10 * One) * 5
    IN IF x < 0 THEN 0 ELSE IF x > 100 * One THEN 100 * One ELSE x

\* C13 as stated: the score of every record is an integer in [0,100] equal
\* to clamp((raw + 10) * 5, 0, 100), and the record keeps its class.
C13_StrengthInteger ==
    strength # Pending =>
        /\ strength.k = "num"
        /\ strength.v % One = 0
        /\ 0 <= strength.v /\ strength.v <= 100 * One
        /\ strength.v = C13_Clamped
        /\ signal_data.signal
             = _determine_signal(signal_data.rsi.v, signal_data.macd.v,
                                 signal_data.macd_signal.v,
                                 signal_data.ema9.v, signal_data.ema21.v)

\* C13 amended: the score of every record is a number in [0,100], whole or
\* not, equal to clamp((raw + 10) * 5, 0, 100), and the record keeps its
\* class.
C13_StrengthFormula ==
    strength # Pending =>
        /\ strength.k = "num"
        /\ 0 <= strength.v /\ strength.v <= 100 * One
        /\ strength.v = C13_Clamped
        /\ signal_data.signal
             = _determine_signal(signal_data.rsi.v, signal_data.macd.v,
                                 signal_data.macd_signal.v,
                                 signal_data.ema9.v, signal_data.ema21.v)

\* a record with RSI 50, a MACD gap of 0.001 and equal EMAs was scored 50.5
C13_Witness ==
    /\ strength # Pending
    /\ signal_data.rsi = Num(50 * One)
    /\ signal_data.macd.v - signal_data.macd_signal.v = 2
    /\ signal_data.ema9 = signal_data.ema21
    /\ strength = Num(50 * One + One \div 2)

\* C12: a run hands a message to the notifier only when its signal is BUY or
\* SELL, and then the message of that signal; a run whose signal is HOLD, or
\* that produced no record, hands nothing; when the delivery fails, the
\* run's record is still the engine's answer with its timestamp and the
\* history has taken it as its last record.
C12_NotifyOnlyBuySell ==
    [][RunScript =>
          /\ outbox' # outbox =>
                /\ signal_data'.k = "record"
                /\ signal_data'.signal \in {BUY, SELL}
                /\ Len(outbox') = Len(outbox) + 1
                /\ outbox'[Len(outbox')].text = signal_data'.signal
          /\ (signal_data'.k # "record" \/ signal_data'.signal = HOLD) =>
                /\ outbox' = outbox
                /\ ~cycle'.handed
          /\ (cycle'.handed /\ ~cycle'.delivered) =>
                /\ signal_data'
                     = Stamped(generate_signal(ret'), cycle'.now)
                /\ signals_history'
                     = LET h == Append(signals_history, signal_data')
                       IN IF Len(h) > HistoryKeep THEN Tail(h) ELSE h
      ]_vars

\* a SELL was handed to the notifier, the delivery failed, and the record is
\* the last of the history
C12_Witness ==
    /\ cycle.k = "ran"
    /\ cycle.handed /\ ~cycle.delivered
    /\ signal_data.signal = SELL
    /\ outbox[Len(outbox)].text = SELL
    /\ signals_history[Len(signals_history)] = signal_data

\* C14: a run hands one message to the notifier exactly when notifications
\* are enabled, its signal is BUY or SELL, and the history before the run is
\* empty or ends with another signal; otherwise it hands none; a run that
\* repeats the signal of the run before it hands none.
C14_NotifyOnChange ==
    [][RunScript =>
          /\ \/ outbox' = outbox
             \/ /\ Len(outbox') = Len(outbox) + 1
                /\ SubSeq(outbox', 1, Len(outbox)) = outbox
          /\ outbox' # outbox <=>
                /\ telegram_enabled'
                /\ signal_data'.k = "record"
                /\ signal_data'.signal \in {BUY, SELL}
                /\ \/ Len(signals_history) = 0
                   \/ signals_history[Len(signals_history)].signal
                        # signal_data'.signal
          /\ (/\ signal_data.k = "record"
              /\ signal_data'.k = "record"
              /\ signal_data'.signal = signal_data.signal) =>
                outbox' = outbox
      ]_vars

\* two runs in a row answered BUY with notifications enabled: the first was
\* notified, the second was not
C14_Witness ==
    /\ cycle.k = "ran" /\ cycle.n = 2
    /\ telegram_enabled
    /\ signal_data.k = "record" /\ signal_data.signal = BUY
    /\ ~cycle.appended /\ ~cycle.handed
    /\ Len(signals_history) = 1
    /\ signals_history[1].signal = BUY
    /\ Len(outbox) = 1 /\ outbox[1].text = BUY

\* C15: the history never holds more than 50 records and no two adjacent
\* records of it have the same signal; after a run that produced a record
\* the last record has that record's signal, and a run that produced none
\* leaves the history as it was; a record appended to a history of 50 drops
\* the oldest and keeps the others in their order.
C15_HistoryBounded ==
    /\ [](/\ Len(signals_history) <= HistoryKeep
          /\ \A i \in 1..(Len(signals_history) - 1) :
                 signals_history[i].signal # signals_history[i + 1].signal)
    /\ [][RunScript =>
            /\ signal_data'.k = "record" =>
                  signals_history'[Len(signals_history')].signal
                    = signal_data'.signal
            /\ signal_data'.k # "record" =>
                  signals_history' = signals_history
            /\ (Len(signals_history) = HistoryKeep /\ cycle'.appended) =>
                  signals_history'
                    = Append(Tail(signals_history), signal_data')
        ]_vars

\* a run appended its record to a full history: the oldest record is gone
C15_Witness ==
    /\ cycle.k = "ran" /\ cycle.appended
    /\ Len(signals_history) = HistoryKeep
    /\ signals_history[1].timestamp > 1
    /\ signals_history[HistoryKeep] = signal_data

\* whether the i-th request of the call gave the call a frame to return
C16_Usable(i) == requests[i].resp.status = "200" /\ requests[i].resp.parses

\* C16 as stated: a call issues at most tentativas requests; a request that
\* answers 200 is the last one and the call returns the series built from
\* it; the call returns None only after tentativas requests, none of them
\* answered 200.
C16_FirstOkReturns ==
    /\ Len(requests) <= tentativas
    /\ \A i \in 1..Len(requests) :
          requests[i].resp.status = "200" =>
              /\ i = Len(requests)
              /\ fetched
                   = PriceFrame(LastPoints(requests[i].resp.prices, limite))
    /\ (fetched # Pending /\ fetched.none) =>
          /\ Len(requests) = tentativas
          /\ \A i \in 1..Len(requests) : requests[i].resp.status # "200"
    /\ (fetched # Pending /\ ~fetched.none) =>
          /\ Len(requests) >= 1
          /\ requests[Len(requests)].resp.status = "200"

\* the safety part of C16 amended
C16_Safe ==
    /\ Len(requests) <= tentativas
    /\ \A i \in 1..Len(requests) :
          C16_Usable(i) =>
              /\ i = Len(requests)
              /\ fetched
                   = PriceFrame(LastPoints(requests[i].resp.prices, limite))
    /\ (fetched # Pending /\ fetched.none) =>
          /\ Len(requests) = tentativas
          /\ \A i \in 1..Len(requests) : ~C16_Usable(i)
    /\ (fetched # Pending /\ ~fetched.none) =>
          /\ Len(requests) >= 1
          /\ C16_Usable(Len(requests))

\* C16 amended: a call returns, after at most tentativas requests; a request
\* that answers 200 with a body that holds the prices is the last one and
\* the call returns the series built from it (a 200 whose body cannot be
\* read counts as a failed attempt); the call returns None only after
\* tentativas requests, each of them failed.
C16_FirstUsableReturns == []C16_Safe /\ <>(fetched # Pending)

\* a call returned the series of its third request, after a 200 whose body
\* could not be read and a 429
C16_Witness ==
    /\ fetched # Pending /\ ~fetched.none
    /\ Len(requests) = 3
    /\ requests[1].resp.status = "200" /\ ~requests[1].resp.parses
    /\ requests[2].resp.status = "429"
    /\ fetched = PriceFrame(RisingCloses)

===========================================================================
